---- MODULE Spec2Model ----
(***************************************************************************)
(* CodeSage frontend: the top-level view (App), the file intake            *)
(* (FileUpload), the Q&A panel (CodeQuestion) and the documentation panel  *)
(* (DocumentationGenerator), with the backend requests they leave in       *)
(* flight.  App mounts exactly one panel, the one of the active tab; a     *)
(* panel's useState values live only while it is mounted.  A promise       *)
(* continuation or FileReader callback of an unmounted panel still runs:   *)
(* its calls of the panel's own setters change nothing, its calls of the   *)
(* App's setters (onAnalysisComplete) take effect.                         *)
(*                                                                         *)
(* Strings the code inspects (trim, truthiness of text) are sequences of   *)
(* one-character strings; messages and language names are atomic strings.  *)
(*                                                                         *)
(* Spec is the application; LiveSpec is the application when every request *)
(* and every file read completes.  The functions evaluated while rendering *)
(* (downloadDocumentation's file name, the score colors of CodeAnalysis,   *)
(* the cleanup and the code spans of MarkdownRenderer, the lists of        *)
(* CodeAnalysis) have specifications of their own, DownloadSpec,           *)
(* ColorSpec, MarkdownSpec, StructureSpec and CodeSpec: the initial state  *)
(* draws the input and the action applies the function.                    *)
(***************************************************************************)
EXTENDS Integers, Sequences, FiniteSets, TLC

\* ------------------------------------------------------------ bounds
\* Requests (analyze + question + documentation) issued in one run.
MaxRequests == 3
\* Length of the file names a documentation response is tried with.
MaxNameLen == 5
\* Scores run from 0 to MaxScore in steps of 1 / ScoreSteps.
MaxScore == 10
ScoreSteps == 4
\* Length of the Markdown texts the renderer is tried with, and the number
\* of times the cleanup is applied in a row.
MaxTextLen == 6
MaxPasses == 2
\* Number of functions and of classes of the analysis results CodeAnalysis is
\* tried with, and length of their doc strings.
MaxItems == 12
MaxDocLen == 102
\* Number of pieces of text a code span is put together from.
MaxLexemes == 3

\* ------------------------------------------------------------ values
\* null / undefined of a nullable object (result, documentation, File).
Null == [null |-> TRUE]
\* null of a nullable message (error: string | null).
NullStr == "<null>"
\* undefined of an optional message (err.response?.data?.detail).
Undefined == "<undefined>"
EmptyStr == << >>

Whitespace == {" ", "\n", "\t", "\r"}

\* JavaScript truthiness of a text (sequence of characters).
TruthyText(s) == s # EmptyStr
\* JavaScript truthiness of an optional atomic string.
TruthyStr(s) == s \notin {"", NullStr, Undefined}
\* a || b on optional atomic strings.
OrStr(a, b) == IF TruthyStr(a) THEN a ELSE b

RECURSIVE TrimStart(_)
TrimStart(s) ==
    IF s # EmptyStr /\ Head(s) \in Whitespace THEN TrimStart(Tail(s)) ELSE s

RECURSIVE TrimEnd(_)
TrimEnd(s) ==
    IF s # EmptyStr /\ s[Len(s)] \in Whitespace
    THEN TrimEnd(SubSeq(s, 1, Len(s) - 1))
    ELSE s

\* String.prototype.trim
Trim(s) == TrimEnd(TrimStart(s))

\* ------------------------------------------------------------ inputs
\* The File objects a user can drop: a Python file, a Ruby file, and a
\* text file that holds one blank only.
FileA == [name |-> <<"a", ".", "p", "y">>, text |-> <<"x">>]
FileB == [name |-> <<"b", ".", "r", "b">>, text |-> <<"y">>]
FileW == [name |-> <<"w", ".", "t", "x", "t">>, text |-> <<" ">>]
Files == {FileA, FileB, FileW}

\* What the user can type into the question box.
QuestionTexts == {EmptyStr, <<" ">>, <<"q", " ">>}

\* The options of the language select.
LanguageOptions ==
    {"Generic", "Python", "JavaScript", "TypeScript", "Java", "C++", "Go", "Rust"}

\* An axios failure: no response at all, or a non-2xx response whose body
\* has no detail, an empty detail, or a detail message.
Errors ==
    { [response |-> FALSE, detail |-> Undefined],
      [response |-> TRUE, detail |-> Undefined],
      [response |-> TRUE, detail |-> ""],
      [response |-> TRUE, detail |-> "Unsupported file type"] }

\* err.response?.data?.detail
ErrDetail(err) == IF err.response THEN err.detail ELSE Undefined

AnalyzeFallback == "Failed to analyze file. Please try again."
DocFallback == "Failed to generate documentation. Please try again."

\* The option the modelled user picks in the language select.
UserLanguages == {"Java"}

\* ------------------------------------------------------------ backend
\* The language the backend reports for a file: one the language select
\* offers, none (""), or one the select does not offer.
DetectLanguage(file) ==
    CASE file = FileA -> "Python"
      [] file = FileB -> ""
      [] OTHER -> "Text"

\* The body of a 2xx /analyze response for `file`; `file` records the File
\* the request carried.
AnalyzeResponse(file) ==
    [ filename |-> IF file = FileW THEN EmptyStr ELSE file.name,
      language |-> DetectLanguage(file),
      file     |-> file ]

\* The body of a 2xx /question response; `id` and `code` record the request
\* answered and the code content it carried.
QuestionResponseOf(req) ==
    [ answer |-> "answer", question |-> req.form.question,
      language |-> req.form.language, id |-> req.id,
      code |-> req.form.code_content ]

\* The body of a 2xx /documentation response; `id` records the request.
DocumentationResponseOf(req) ==
    [ filename |-> req.file.name, language |-> DetectLanguage(req.file),
      documentation |-> "docs", id |-> req.id ]

\* ------------------------------------------------------------ downloadDocumentation
\* A result that has been computed for a call.
Done(call) == "output" \in DOMAIN call

Min(S) == CHOOSE x \in S : \A y \in S : x <= y

\* All texts over `chars` of at most n characters.
Texts(chars, n) == UNION {[1..k -> chars] : k \in 0..n}

\* The file names a documentation response is tried with.
FileNameChars == {"a", ".", "/"}
FooPy == <<"f", "o", "o", ".", "p", "y">>
FileNames == Texts(FileNameChars, MaxNameLen) \cup {FooPy}

\* The `documentation` state downloadDocumentation can find.
Documentations ==
    {Null} \cup
    {[filename |-> n, language |-> "Python", documentation |-> "docs"] :
        n \in FileNames}

\* /\.[^/.]+$/ matches at position i of s.
ExtensionAt(s, i) ==
    /\ s[i] = "."
    /\ i < Len(s)
    /\ \A j \in (i + 1)..Len(s) : s[j] \notin {"/", "."}

\* Faulty variant of StripExtension: the pattern is /\..*$/.
StripExtension_FirstDot(s) ==
    LET M == {i \in 1..Len(s) : s[i] = "."}
    IN IF M = {} THEN s ELSE SubSeq(s, 1, Min(M) - 1)

\* filename.replace(/\.[^/.]+$/, ''): the leftmost match is removed.
StripExtension(s) ==
    LET M == {i \in 1..Len(s) : ExtensionAt(s, i)}
    IN IF M = {} THEN s ELSE SubSeq(s, 1, Min(M) - 1)

DocumentationSuffix ==
    <<"_", "d", "o", "c", "u", "m", "e", "n", "t", "a", "t", "i", "o", "n",
      ".", "m", "d">>

\* `${documentation.filename.replace(/\.[^/.]+$/, '')}_documentation.md`
DownloadName(filename) == StripExtension(filename) \o DocumentationSuffix

\* downloadDocumentation returned without a download.
NoDownload == [download |-> FALSE]

\* downloadDocumentation(): the download it starts, if any.
DownloadOf(documentation) ==
    IF documentation = Null
    THEN NoDownload
    ELSE [ download |-> TRUE, name |-> DownloadName(documentation.filename),
           content |-> documentation.documentation ]

\* ------------------------------------------------------------ CodeAnalysis
\* A score k stands for k / ScoreSteps.
Scores == 0..(MaxScore * ScoreSteps)

\* code_quality_score: number | null
QualityScores == {Null} \cup {[value |-> k] : k \in Scores}

\* Faulty variant of GetComplexityColor: the comparisons are <=.
GetComplexityColor_Inclusive(score) ==
    IF score <= 3 * ScoreSteps THEN "text-green-600"
    ELSE IF score <= 6 * ScoreSteps THEN "text-yellow-600"
    ELSE "text-red-600"

GetComplexityColor(score) ==
    IF score < 3 * ScoreSteps THEN "text-green-600"
    ELSE IF score < 6 * ScoreSteps THEN "text-yellow-600"
    ELSE "text-red-600"

\* !score of a number | null: null and 0 are falsy.
FalsyScore(score) == score = Null \/ score.value = 0

GetQualityColor(score) ==
    IF FalsyScore(score) THEN "text-gray-600"
    ELSE IF score.value >= 8 * ScoreSteps THEN "text-green-600"
    ELSE IF score.value >= 6 * ScoreSteps THEN "text-yellow-600"
    ELSE "text-red-600"

\* ------------------------------------------------------------ MarkdownRenderer
\* The characters the Markdown texts are made of.
MarkdownChars == {"-", "\n", " ", "a", "\r"}
MarkdownTexts == Texts(MarkdownChars, MaxTextLen)

\* The line terminators of a JavaScript regular expression (^ and $ with
\* the m flag match after and before each of them).
LineTerminators == {"\n", "\r"}

\* Number of hyphens / whitespace characters / newlines of s from position i.
RECURSIVE DashRun(_, _)
DashRun(s, i) == IF i <= Len(s) /\ s[i] = "-" THEN 1 + DashRun(s, i + 1) ELSE 0

RECURSIVE WsRun(_, _)
WsRun(s, i) == IF i <= Len(s) /\ s[i] \in Whitespace THEN 1 + WsRun(s, i + 1) ELSE 0

RECURSIVE NewlineRun(_, _)
NewlineRun(s, i) == IF i <= Len(s) /\ s[i] = "\n" THEN 1 + NewlineRun(s, i + 1) ELSE 0

StartsWith(s, i, p) ==
    i + Len(p) - 1 <= Len(s) /\ SubSeq(s, i, i + Len(p) - 1) = p

\* /---+\s*$/ matches at position i of s (no m flag: $ is the end of s).
TrailingRuleAt(s, i) ==
    /\ DashRun(s, i) >= 3
    /\ \A j \in (i + DashRun(s, i))..Len(s) : s[j] \in Whitespace

\* .replace(/---+\s*$/, '')
RemoveTrailingRule(s) ==
    LET M == {i \in 1..Len(s) : TrailingRuleAt(s, i)}
    IN IF M = {} THEN s ELSE SubSeq(s, 1, Min(M) - 1)

\* .replace(/\n---+\s*$/g, '')
RemoveNewlineTrailingRule(s) ==
    LET M == {i \in 1..Len(s) : s[i] = "\n" /\ TrailingRuleAt(s, i + 1)}
    IN IF M = {} THEN s ELSE SubSeq(s, 1, Min(M) - 1)

\* pre, three or more hyphens, post match at position i of s.
RuleBetweenAt(s, i, pre, post) ==
    /\ StartsWith(s, i, pre)
    /\ DashRun(s, i + Len(pre)) >= 3
    /\ StartsWith(s, i + Len(pre) + DashRun(s, i + Len(pre)), post)

\* .replace(/<pre>---+<post>/g, repl), scanning s from position i.
RECURSIVE ReplaceRules(_, _, _, _, _)
ReplaceRules(s, i, pre, post, repl) ==
    IF i > Len(s) THEN << >>
    ELSE IF RuleBetweenAt(s, i, pre, post)
    THEN repl \o ReplaceRules(s, i + Len(pre) + DashRun(s, i + Len(pre)) + Len(post),
                              pre, post, repl)
    ELSE <<s[i]>> \o ReplaceRules(s, i + 1, pre, post, repl)

\* ^ (m flag) matches at position i; $ (m flag) matches before position p.
LineStart(s, i) == i = 1 \/ s[i - 1] \in LineTerminators
LineEnd(s, p) == p = Len(s) + 1 \/ s[p] \in LineTerminators

\* The lengths of whitespace \s* can take after the hyphens that start at
\* position i so that $ (m flag) matches.
RuleLineTails(s, i) ==
    {j \in 0..WsRun(s, i + DashRun(s, i)) : LineEnd(s, i + DashRun(s, i) + j)}

\* /^---+\s*$/m matches at position i of s.
RuleLineAt(s, i) ==
    LineStart(s, i) /\ DashRun(s, i) >= 3 /\ RuleLineTails(s, i) # {}

\* The length of that match: \s* is greedy.
RuleLineLen(s, i) ==
    DashRun(s, i) + (CHOOSE j \in RuleLineTails(s, i) :
                        \A k \in RuleLineTails(s, i) : k <= j)

\* .replace(/^---+\s*$/gm, ''), scanning s from position i.
RECURSIVE RemoveRuleLines(_, _)
RemoveRuleLines(s, i) ==
    IF i > Len(s) THEN << >>
    ELSE IF RuleLineAt(s, i) THEN RemoveRuleLines(s, i + RuleLineLen(s, i))
    ELSE <<s[i]>> \o RemoveRuleLines(s, i + 1)

\* .replace(/\n{3,}/g, '\n\n'), scanning s from position i.
RECURSIVE CollapseNewlines(_, _)
CollapseNewlines(s, i) ==
    IF i > Len(s) THEN << >>
    ELSE IF NewlineRun(s, i) >= 3
    THEN <<"\n", "\n">> \o CollapseNewlines(s, i + NewlineRun(s, i))
    ELSE <<s[i]>> \o CollapseNewlines(s, i + 1)

\* cleanedContent of MarkdownRenderer for `content`.
CleanedContent(content) ==
    LET c1 == RemoveNewlineTrailingRule(content)
        c2 == RemoveTrailingRule(c1)
        c3 == ReplaceRules(c2, 1, <<"\n">>, <<"\n">>, <<"\n", "\n">>)
        c4 == ReplaceRules(c3, 1, <<"\n">>, <<"\r", "\n">>, <<"\n", "\n">>)
        c5 == ReplaceRules(c4, 1, <<"\r", "\n">>, <<"\r", "\n">>,
                           <<"\r", "\n", "\r", "\n">>)
        c6 == RemoveRuleLines(c5, 1)
        c7 == RemoveTrailingRule(c6)
        c8 == CollapseNewlines(c7, 1)
        c9 == Trim(c8)
    IN Trim(RemoveTrailingRule(c9))

\* ------------------------------------------------------------ CodeAnalysis lists
\* The arguments of slice(0, 10) and of substring(0, 100).
ShownItems == 10
ShownDocChars == 100
Ellipsis == <<".", ".", ".">>

\* A doc string of n characters, no two neighbours alike.
DocstringOf(n) == [i \in 1..n |-> IF i % 2 = 1 THEN "d" ELSE "o"]

\* basic_analysis.functions with n entries: the entries at odd positions
\* have the doc string d, the others have none.
FunctionsOf(n, d) ==
    [i \in 1..n |-> IF i % 2 = 1 THEN [name |-> i, docstring |-> d]
                                  ELSE [name |-> i]]

\* basic_analysis.classes with n entries.
ClassesOf(n) == [i \in 1..n |-> [name |-> i]]

\* The basic_analysis objects CodeAnalysis is tried with.
BasicAnalyses ==
    {[functions |-> FunctionsOf(n, DocstringOf(k)), classes |-> ClassesOf(m)] :
        n \in 0..MaxItems, m \in 0..MaxItems, k \in 0..MaxDocLen}

\* Faulty variant of Slice: the element at index `end` is included.
Slice_Inclusive(list, start, end) ==
    SubSeq(list, start + 1, Min({end + 1, Len(list)}))

\* Array.prototype.slice(start, end), 0 <= start <= end.
Slice(list, start, end) == SubSeq(list, start + 1, Min({end, Len(list)}))

\* String.prototype.substring(start, end), 0 <= start <= end.
Substring(str, start, end) == SubSeq(str, start + 1, Min({end, Len(str)}))

\* One entry of the Functions list: {func.docstring && <p>{...}...</p>}
FunctionEntry(func) ==
    IF "docstring" \in DOMAIN func /\ TruthyText(func.docstring)
    THEN [ name |-> func.name,
           docstring |-> Substring(func.docstring, 0, ShownDocChars) \o Ellipsis ]
    ELSE [name |-> func.name]

\* One entry of the Classes list.
ClassEntry(cls) == [name |-> cls.name]

\* The Functions and Classes lists of the Code Structure card.
FunctionsList(basic) ==
    LET shown == Slice(basic.functions, 0, ShownItems)
    IN [i \in 1..Len(shown) |-> FunctionEntry(shown[i])]

ClassesList(basic) ==
    LET shown == Slice(basic.classes, 0, ShownItems)
    IN [i \in 1..Len(shown) |-> ClassEntry(shown[i])]

\* ------------------------------------------------------------ MarkdownRenderer code spans
\* Length above which a code span is a block.
BlockChars == 50

\* String.prototype.includes for a non-empty t.
Includes(str, t) == \E i \in 1..Len(str) : StartsWith(str, i, t)

\* String.prototype.toLowerCase on the letters the inputs use.
UpperCase == {"P", "D"}
ToLowerChar(c) == IF c = "P" THEN "p" ELSE IF c = "D" THEN "d" ELSE c
ToLowerCase(str) == [i \in 1..Len(str) |-> ToLowerChar(str[i])]

\* \w of a regular expression.
WordChars ==
    { "a", "b", "c", "d", "e", "f", "g", "h", "i", "j", "k", "l", "m", "n",
      "o", "p", "q", "r", "s", "t", "u", "v", "w", "x", "y", "z", "_",
      "0", "1", "2", "3", "4", "5", "6", "7", "8", "9" } \cup UpperCase

RECURSIVE WordRun(_, _)
WordRun(str, i) ==
    IF i <= Len(str) /\ str[i] \in WordChars THEN 1 + WordRun(str, i + 1) ELSE 0

LanguagePrefix == <<"l", "a", "n", "g", "u", "a", "g", "e", "-">>

\* The positions at which /language-(\w+)/ matches.
LanguageMatches(cn) ==
    {i \in 1..Len(cn) : /\ StartsWith(cn, i, LanguagePrefix)
                        /\ WordRun(cn, i + Len(LanguagePrefix)) >= 1}

\* match[1] of /language-(\w+)/.exec(className || ''), or the empty text
\* when exec returns null: the group is greedy and never empty.
LanguageGroup(cn) ==
    IF LanguageMatches(cn) = {}
    THEN EmptyStr
    ELSE LET i == Min(LanguageMatches(cn)) + Len(LanguagePrefix)
         IN SubSeq(cn, i, i + WordRun(cn, i) - 1)

\* className || ''
ClassNameOf(props) ==
    IF "className" \in DOMAIN props /\ TruthyText(props.className)
    THEN props.className
    ELSE EmptyStr

\* String(children).replace(/\n$/, '')
CodeString(children) ==
    IF children # EmptyStr /\ children[Len(children)] = "\n"
    THEN SubSeq(children, 1, Len(children) - 1)
    ELSE children

\* The tokens of the three content tests, on the lower-cased text.
PythonTokens ==
    { <<"d", "e", "f", " ">>,
      <<"c", "l", "a", "s", "s", " ">>,
      <<"i", "m", "p", "o", "r", "t", " ">>,
      <<"@", "d", "a", "t", "a", "c", "l", "a", "s", "s">>,
      <<"r", "a", "i", "s", "e", " ">>,
      <<"-", ">", " ", "n", "o", "n", "e">>,
      <<"/", "/", " ", "b", "e", "f", "o", "r", "e", ":">>,
      <<"/", "/", " ", "a", "f", "t", "e", "r", ":">> }
JavaScriptTokens ==
    { <<"f", "u", "n", "c", "t", "i", "o", "n", " ">>,
      <<"c", "o", "n", "s", "t", " ">>,
      <<"l", "e", "t", " ">>,
      <<"e", "x", "p", "o", "r", "t", " ">>,
      <<"i", "n", "t", "e", "r", "f", "a", "c", "e", " ">>,
      <<"t", "y", "p", "e", " ">>,
      <<"/", "/", " ", "b", "e", "f", "o", "r", "e">>,
      <<"/", "/", " ", "a", "f", "t", "e", "r">> }
PublicToken == <<"p", "u", "b", "l", "i", "c", " ">>
PrivateToken == <<"p", "r", "i", "v", "a", "t", "e", " ">>
ClassToken == <<"c", "l", "a", "s", "s", " ">>
BraceToken == <<"{">>

TextLanguage == <<"t", "e", "x", "t">>
PythonLanguage == <<"p", "y", "t", "h", "o", "n">>
JavaScriptLanguage == <<"j", "a", "v", "a", "s", "c", "r", "i", "p", "t">>
JavaLanguage == <<"j", "a", "v", "a">>

\* content.includes('public ') || content.includes('private ') ||
\* content.includes('class ') && content.includes('{'): && binds tighter.
JavaTest(content) ==
    \/ Includes(content, PublicToken)
    \/ Includes(content, PrivateToken)
    \/ Includes(content, ClassToken) /\ Includes(content, BraceToken)

\* The language guessed from the content of a block without a tag.
DetectFromContent(codeString) ==
    LET content == ToLowerCase(codeString)
    IN IF \E t \in PythonTokens : Includes(content, t) THEN PythonLanguage
       ELSE IF \E t \in JavaScriptTokens : Includes(content, t)
            THEN JavaScriptLanguage
       ELSE IF JavaTest(content) THEN JavaLanguage
       ELSE TextLanguage

\* isCodeBlock of the code component.
IsCodeBlock(codeString, group) ==
    \/ Includes(codeString, <<"\n">>)
    \/ Len(codeString) > BlockChars
    \/ TruthyText(group)

\* The code component: whether the span is a block, and its language.
CodeComponent(props) ==
    LET group == LanguageGroup(ClassNameOf(props))
        codeString == CodeString(props.children)
    IN IF IsCodeBlock(codeString, group)
       THEN [ block |-> TRUE,
              language |-> IF TruthyText(group) THEN group
                           ELSE DetectFromContent(codeString) ]
       ELSE [block |-> FALSE]

\* The pieces of text code spans are put together from, and the class names
\* react-markdown passes for a fence with and without a tag.
Filler == [i \in 1..BlockChars |-> "x"]
Lexemes ==
    { <<"d", "e", "f", " ">>, <<"c", "l", "a", "s", "s", " ">>, <<"P", "u", "b", "l", "i", "c", " ">>,
      <<"p", "r", "i", "v", "a", "t", "e", " ">>, <<"{">>, <<"f", "u", "n", "c", "t", "i", "o", "n", " ">>,
      <<"/", "/", " ", "b", "e", "f", "o", "r", "e", ":">>, <<"\n">>,
      Filler }
RECURSIVE Concat(_)
Concat(parts) == IF parts = << >> THEN EmptyStr ELSE Head(parts) \o Concat(Tail(parts))
CodeTexts == {Concat(parts) : parts \in Texts(Lexemes, MaxLexemes)}
ClassNames ==
    { <<"l", "a", "n", "g", "u", "a", "g", "e", "-", "p", "y", "t", "h", "o", "n">>,
      <<"l", "a", "n", "g", "u", "a", "g", "e", "-", "c", "+", "+">> }
CodeProps ==
    {[children |-> c] : c \in CodeTexts}
        \cup {[className |-> cn, children |-> c] : cn \in ClassNames, c \in CodeTexts}

\* No render-time function has been called.
NoCall == [op |-> "none"]

\* ------------------------------------------------------------ state
VARIABLES
    activeTab,       \* App: the tab shown
    analysisResult,  \* App: Null or an AnalyzeResponse
    codeContent,     \* App: text of the analyzed file
    fileUpload,      \* FileUpload's useState values (fresh when unmounted)
    codeQuestion,    \* CodeQuestion's useState values (fresh when unmounted)
    docGen,          \* DocumentationGenerator's useState values
    analyzeReqs,     \* analyzeCode calls awaiting their response
    reads,           \* FileReader.readAsText calls awaiting onload
    questionReqs,    \* askQuestion calls awaiting their response
    docReqs,         \* generateDocumentation calls awaiting their response
    issued,          \* history: number of requests issued (the newest id)
    relayed,         \* history: the newest upload relayed so far (id, File)
                     \* and the upload id whose relay the App's pair is
    alerts,          \* history: number of alert() calls
    failed,          \* history: number of rejected analyze / documentation calls
    shownLog,        \* history: the conversation log as last displayed
    returned,        \* history: the operation before this state was a
                     \* handleSubmit call that returned early
    lastDoc,         \* history: id of the newest documentation request and
                     \* the documentation on display when it was submitted
    pure             \* a call of a render-time function: input and result

vars ==
    << activeTab, analysisResult, codeContent, fileUpload, codeQuestion, docGen,
       analyzeReqs, reads, questionReqs, docReqs, issued, relayed, alerts,
       failed, shownLog, returned, lastDoc, pure >>

appVars ==
    << activeTab, analysisResult, codeContent, fileUpload, codeQuestion, docGen,
       analyzeReqs, reads, questionReqs, docReqs, issued, relayed, alerts,
       failed, shownLog, returned, lastDoc >>

Tabs == {"analyze", "question", "documentation"}


\* useState initial values of FileUpload.
FreshFileUpload ==
    [isUploading |-> FALSE, error |-> NullStr, uploadedFile |-> Null]

\* const detectedLanguage = analysisResult?.language || 'Generic'
DetectedLanguage(result) ==
    IF result = Null THEN "Generic" ELSE OrStr(result.language, "Generic")

\* useState initial values of CodeQuestion, then its mount effect; `touched`
\* records that the user has picked a language since the panel was shown.
FreshCodeQuestion(result) ==
    [ question |-> EmptyStr, isLoading |-> FALSE, answers |-> << >>,
      language |-> DetectedLanguage(result), touched |-> FALSE ]

\* useState initial values of DocumentationGenerator.
FreshDocGen ==
    [ isGenerating |-> FALSE, error |-> NullStr, documentation |-> Null,
      uploadedFile |-> Null ]

\* The state after the first render of App, except `pure`.
AppInit ==
    /\ activeTab = "analyze"
    /\ analysisResult = Null
    /\ codeContent = EmptyStr
    /\ fileUpload = FreshFileUpload
    /\ codeQuestion = FreshCodeQuestion(Null)
    /\ docGen = FreshDocGen
    /\ analyzeReqs = {}
    /\ reads = {}
    /\ questionReqs = {}
    /\ docReqs = {}
    /\ issued = 0
    /\ relayed = [newest |-> 0, newestFile |-> Null, held |-> 0]
    /\ alerts = 0
    /\ failed = [analyze |-> 0, documentation |-> 0]
    /\ shownLog = << >>
    /\ returned = FALSE
    /\ lastDoc = [id |-> 0, prior |-> Null]

Init == AppInit /\ pure = NoCall

\* The continuations of a panel that is unmounted no longer reach its state.
Orphan(reqs) == {[r EXCEPT !.live = FALSE] : r \in reqs}

\* ------------------------------------------------------------ App
\* Faulty variant of SetActiveTab: the click also resets the App's pair.
SetActiveTab_ResetsPair(t) ==
    /\ t # activeTab
    /\ activeTab' = t
    /\ analysisResult' = Null
    /\ codeContent' = EmptyStr
    /\ fileUpload' = FreshFileUpload
    /\ codeQuestion' = FreshCodeQuestion(Null)
    /\ docGen' = FreshDocGen
    /\ analyzeReqs' = Orphan(analyzeReqs)
    /\ questionReqs' = Orphan(questionReqs)
    /\ docReqs' = Orphan(docReqs)
    /\ shownLog' = IF activeTab = "question" THEN codeQuestion.answers ELSE shownLog
    /\ returned' = FALSE
    /\ UNCHANGED << reads, issued, relayed, alerts, failed, lastDoc, pure >>

\* A click on a tab button: the panel of the old tab is unmounted, the panel
\* of the new tab is mounted with fresh state.
SetActiveTab(t) ==
    /\ t # activeTab
    /\ activeTab' = t
    /\ fileUpload' = FreshFileUpload
    /\ codeQuestion' = IF t = "question"
                       THEN FreshCodeQuestion(analysisResult)
                       ELSE FreshCodeQuestion(Null)
    /\ docGen' = FreshDocGen
    /\ analyzeReqs' = Orphan(analyzeReqs)
    /\ questionReqs' = Orphan(questionReqs)
    /\ docReqs' = Orphan(docReqs)
    /\ shownLog' = IF activeTab = "question" THEN codeQuestion.answers ELSE shownLog
    /\ returned' = FALSE
    /\ UNCHANGED << analysisResult, codeContent, reads, issued, relayed,
                    alerts, failed, lastDoc, pure >>

\* Faulty variant of onAnalysisComplete: setCodeContent(content) is left out.
onAnalysisComplete_NoContent(result, content) ==
    /\ analysisResult' = result
    /\ codeContent' = codeContent

\* Faulty variant of onAnalysisComplete: setAnalysisResult(result) is left out.
onAnalysisComplete_NoResult(result, content) ==
    /\ analysisResult' = analysisResult
    /\ codeContent' = content

\* onAnalysisComplete={(result, content) => { setAnalysisResult(result);
\* setCodeContent(content) }}: one batched update of the App's state.
onAnalysisComplete(result, content) ==
    /\ analysisResult' = result
    /\ codeContent' = content

\* ------------------------------------------------------------ FileUpload
\* useDropzone({disabled: isUploading}): whether a drop reaches onDrop.
DropzoneEnabled == activeTab = "analyze" /\ ~fileUpload.isUploading

\* onDrop(acceptedFiles) up to the await: acceptedFiles is empty when the
\* dropzone rejected the file (extension not allow-listed, or several files).
FileUploadOnDrop(acceptedFiles) ==
    /\ DropzoneEnabled
    /\ IF acceptedFiles = << >>
       THEN UNCHANGED << fileUpload, analyzeReqs, issued, returned >>
       ELSE LET file == acceptedFiles[1]
            IN /\ issued < MaxRequests
               /\ issued' = issued + 1
               /\ fileUpload' = [ isUploading |-> TRUE, error |-> NullStr,
                                  uploadedFile |-> file ]
               /\ analyzeReqs' = analyzeReqs \cup
                      {[ id |-> issued + 1, file |-> file, live |-> TRUE,
                         resultAtDrop |-> analysisResult,
                         contentAtDrop |-> codeContent ]}
               /\ returned' = FALSE
    /\ UNCHANGED << activeTab, analysisResult, codeContent, codeQuestion,
                    docGen, reads, questionReqs, docReqs, relayed, alerts,
                    failed, shownLog, lastDoc, pure >>

\* analyzeCode(file) resolved: the rest of the try block, then finally.
AnalyzeResolved(req) ==
    /\ req \in analyzeReqs
    /\ analyzeReqs' = analyzeReqs \ {req}
    /\ reads' = reads \cup
           {[id |-> req.id, file |-> req.file, result |-> AnalyzeResponse(req.file)]}
    /\ fileUpload' = IF req.live
                     THEN [fileUpload EXCEPT !.isUploading = FALSE]
                     ELSE fileUpload
    /\ returned' = FALSE
    /\ UNCHANGED << activeTab, analysisResult, codeContent, codeQuestion,
                    docGen, questionReqs, docReqs, issued, relayed, alerts,
                    failed, shownLog, lastDoc, pure >>

\* setError(err.response?.data?.detail || 'Failed to analyze file. ...')
AnalyzeErrorText(err) == OrStr(ErrDetail(err), AnalyzeFallback)

\* Faulty variant of AnalyzeRejected: the catch block also relays an empty result,
\* onAnalysisComplete(null, '').
AnalyzeRejected_Relays(req, err) ==
    /\ req \in analyzeReqs
    /\ analyzeReqs' = analyzeReqs \ {req}
    /\ fileUpload' = IF req.live
                     THEN [ fileUpload EXCEPT !.error = AnalyzeErrorText(err),
                                              !.isUploading = FALSE ]
                     ELSE fileUpload
    /\ onAnalysisComplete(Null, EmptyStr)
    /\ failed' = [failed EXCEPT !.analyze = @ + 1]
    /\ returned' = FALSE
    /\ UNCHANGED << activeTab, codeQuestion, docGen, reads, questionReqs,
                    docReqs, issued, relayed, alerts, shownLog, lastDoc, pure >>

\* Faulty variant of AnalyzeRejected: the catch block sends the file again.
AnalyzeRejected_Retries(req, err) ==
    /\ req \in analyzeReqs
    /\ issued < MaxRequests
    /\ issued' = issued + 1
    /\ analyzeReqs' = (analyzeReqs \ {req}) \cup {[req EXCEPT !.id = issued + 1]}
    /\ fileUpload' = IF req.live
                     THEN [fileUpload EXCEPT !.error = AnalyzeErrorText(err)]
                     ELSE fileUpload
    /\ failed' = [failed EXCEPT !.analyze = @ + 1]
    /\ returned' = FALSE
    /\ UNCHANGED << activeTab, analysisResult, codeContent, codeQuestion,
                    docGen, reads, questionReqs, docReqs, relayed, alerts,
                    shownLog, lastDoc, pure >>

\* analyzeCode(file) rejected: the catch block, then finally.
AnalyzeRejected(req, err) ==
    /\ req \in analyzeReqs
    /\ analyzeReqs' = analyzeReqs \ {req}
    /\ fileUpload' = IF req.live
                     THEN [ fileUpload EXCEPT !.error = AnalyzeErrorText(err),
                                              !.isUploading = FALSE ]
                     ELSE fileUpload
    /\ failed' = [failed EXCEPT !.analyze = @ + 1]
    /\ returned' = FALSE
    /\ UNCHANGED << activeTab, analysisResult, codeContent, codeQuestion,
                    docGen, reads, questionReqs, docReqs, issued, relayed,
                    alerts, shownLog, lastDoc, pure >>

\* useEffect(() => { if (analysisResult?.language) setLanguage(...) },
\* [analysisResult]) of a mounted CodeQuestion, run for a new result.
LanguageEffect(cq, result) ==
    IF result # Null /\ TruthyStr(result.language)
    THEN [cq EXCEPT !.language = result.language]
    ELSE cq

\* Faulty variant of ReaderOnload: the relay is dropped when the file intake
\* is no longer mounted.
ReaderOnload_IfMounted(rd) ==
    /\ rd \in reads
    /\ reads' = reads \ {rd}
    /\ IF activeTab = "analyze"
       THEN /\ onAnalysisComplete(rd.result, rd.file.text)
            /\ relayed' = IF rd.id > relayed.newest
                          THEN [newest |-> rd.id, newestFile |-> rd.file, held |-> rd.id]
                          ELSE [relayed EXCEPT !.held = rd.id]
       ELSE UNCHANGED << analysisResult, codeContent, relayed >>
    /\ returned' = FALSE
    /\ UNCHANGED << activeTab, fileUpload, codeQuestion, docGen, analyzeReqs,
                    questionReqs, docReqs, issued, alerts, failed, shownLog,
                    lastDoc, pure >>

\* reader.onload: the text read from the file and the result are relayed
\* to the App; a mounted CodeQuestion sees the new analysisResult.
ReaderOnload(rd) ==
    /\ rd \in reads
    /\ reads' = reads \ {rd}
    /\ onAnalysisComplete(rd.result, rd.file.text)
    /\ codeQuestion' = IF activeTab = "question"
                       THEN LanguageEffect(codeQuestion, rd.result)
                       ELSE codeQuestion
    /\ relayed' = IF rd.id > relayed.newest
                  THEN [newest |-> rd.id, newestFile |-> rd.file, held |-> rd.id]
                  ELSE [relayed EXCEPT !.held = rd.id]
    /\ returned' = FALSE
    /\ UNCHANGED << activeTab, fileUpload, docGen, analyzeReqs, questionReqs,
                    docReqs, issued, alerts, failed, shownLog, lastDoc, pure >>

\* The read fails: the reader has no onerror handler, nothing is relayed.
ReaderFailed(rd) ==
    /\ rd \in reads
    /\ reads' = reads \ {rd}
    /\ returned' = FALSE
    /\ UNCHANGED << activeTab, analysisResult, codeContent, fileUpload,
                    codeQuestion, docGen, analyzeReqs, questionReqs, docReqs,
                    issued, relayed, alerts, failed, shownLog, lastDoc, pure >>

\* ------------------------------------------------------------ CodeQuestion
\* onChange of the textarea (disabled={isLoading || !codeContent}).
SetQuestion(text) ==
    /\ activeTab = "question"
    /\ ~codeQuestion.isLoading
    /\ TruthyText(codeContent)
    /\ text # codeQuestion.question
    /\ codeQuestion' = [codeQuestion EXCEPT !.question = text]
    /\ returned' = FALSE
    /\ UNCHANGED << activeTab, analysisResult, codeContent, fileUpload, docGen,
                    analyzeReqs, reads, questionReqs, docReqs, issued, relayed,
                    alerts, failed, shownLog, lastDoc, pure >>

\* onChange of the language select (rendered when codeContent is truthy).
SetLanguage(lang) ==
    /\ activeTab = "question"
    /\ TruthyText(codeContent)
    /\ lang # codeQuestion.language
    /\ codeQuestion' = [codeQuestion EXCEPT !.language = lang, !.touched = TRUE]
    /\ returned' = FALSE
    /\ UNCHANGED << activeTab, analysisResult, codeContent, fileUpload, docGen,
                    analyzeReqs, reads, questionReqs, docReqs, issued, relayed,
                    alerts, failed, shownLog, lastDoc, pure >>

\* Faulty variant of SubmitAccepted: the texts are tested without trim().
SubmitAccepted_NoTrim(question, code) ==
    TruthyText(question) /\ TruthyText(code)

\* The negation of handleSubmit's early return:
\* if (!question.trim() || !codeContent.trim()) return
SubmitAccepted(question, code) ==
    TruthyText(Trim(question)) /\ TruthyText(Trim(code))

\* Faulty variant of AskQuestionForm: the question is sent trimmed.
AskQuestionForm_Trimmed(question, code, language) ==
    [question |-> Trim(question), code_content |-> code, language |-> language]

\* askQuestion(question, codeContent, language): the fields appended to the
\* FormData of the POST /question request.
AskQuestionForm(question, code, language) ==
    [question |-> question, code_content |-> code, language |-> language]

\* handleSubmit up to the await.  The form's controls are disabled while
\* isLoading; whether the texts allow a request is the handler's own check.
HandleSubmit ==
    /\ activeTab = "question"
    /\ ~codeQuestion.isLoading
    /\ IF ~SubmitAccepted(codeQuestion.question, codeContent)
       THEN /\ returned' = TRUE
            /\ UNCHANGED << codeQuestion, questionReqs, issued >>
       ELSE /\ issued < MaxRequests
            /\ issued' = issued + 1
            /\ codeQuestion' = [codeQuestion EXCEPT !.isLoading = TRUE]
            /\ questionReqs' = questionReqs \cup
                   {[ id |-> issued + 1,
                      form |-> AskQuestionForm(codeQuestion.question,
                                               codeContent,
                                               codeQuestion.language),
                      answers |-> codeQuestion.answers, live |-> TRUE ]}
            /\ returned' = FALSE
    /\ UNCHANGED << activeTab, analysisResult, codeContent, fileUpload, docGen,
                    analyzeReqs, reads, docReqs, relayed, alerts, failed,
                    shownLog, lastDoc, pure >>

\* setAnswers([...answers, response]) with the answers of the render that
\* submitted.
AppendAnswer(answers, response) == Append(answers, response)

\* askQuestion resolved: the rest of the try block, then finally.
AskResolved(req) ==
    /\ req \in questionReqs
    /\ questionReqs' = questionReqs \ {req}
    /\ codeQuestion' =
           IF req.live
           THEN [ codeQuestion EXCEPT
                    !.answers = AppendAnswer(req.answers, QuestionResponseOf(req)),
                    !.question = EmptyStr,
                    !.isLoading = FALSE ]
           ELSE codeQuestion
    /\ returned' = FALSE
    /\ UNCHANGED << activeTab, analysisResult, codeContent, fileUpload, docGen,
                    analyzeReqs, reads, docReqs, issued, relayed, alerts,
                    failed, shownLog, lastDoc, pure >>

\* Faulty variant of AskRejected: the finally block is missing.
AskRejected_NoFinally(req, err) ==
    /\ req \in questionReqs
    /\ questionReqs' = questionReqs \ {req}
    /\ alerts' = alerts + 1
    /\ returned' = FALSE
    /\ UNCHANGED << activeTab, analysisResult, codeContent, fileUpload,
                    codeQuestion, docGen, analyzeReqs, reads, docReqs, issued,
                    relayed, failed, shownLog, lastDoc, pure >>

\* askQuestion rejected: console.error, alert(...), then finally.
AskRejected(req, err) ==
    /\ req \in questionReqs
    /\ questionReqs' = questionReqs \ {req}
    /\ alerts' = alerts + 1
    /\ codeQuestion' = IF req.live
                       THEN [codeQuestion EXCEPT !.isLoading = FALSE]
                       ELSE codeQuestion
    /\ returned' = FALSE
    /\ UNCHANGED << activeTab, analysisResult, codeContent, fileUpload, docGen,
                    analyzeReqs, reads, docReqs, issued, relayed, failed,
                    shownLog, lastDoc, pure >>

\* ------------------------------------------------------------ DocumentationGenerator
\* useDropzone({disabled: isGenerating})
DocDropzoneEnabled == activeTab = "documentation" /\ ~docGen.isGenerating

\* Faulty variant of DocSubmitted: setDocumentation(null) is left out.
DocSubmitted_KeepsDocumentation(dg, uploaded) ==
    [ isGenerating |-> TRUE, error |-> NullStr,
      documentation |-> dg.documentation, uploadedFile |-> uploaded ]

\* Faulty variant of DocSubmitted: setError(null) is left out.
DocSubmitted_KeepsError(dg, uploaded) ==
    [ isGenerating |-> TRUE, error |-> dg.error, documentation |-> Null,
      uploadedFile |-> uploaded ]

\* The state both handlers set before their await.
DocSubmitted(dg, uploaded) ==
    [ isGenerating |-> TRUE, error |-> NullStr, documentation |-> Null,
      uploadedFile |-> uploaded ]

\* onDrop(acceptedFiles) up to the await.
DocOnDrop(acceptedFiles) ==
    /\ DocDropzoneEnabled
    /\ IF acceptedFiles = << >>
       THEN UNCHANGED << docGen, docReqs, issued, returned, lastDoc >>
       ELSE LET file == acceptedFiles[1]
            IN /\ issued < MaxRequests
               /\ issued' = issued + 1
               /\ lastDoc' = [id |-> issued + 1, prior |-> docGen.documentation]
               /\ docGen' = DocSubmitted(docGen, file)
               /\ docReqs' = docReqs \cup
                      {[ id |-> issued + 1, file |-> file,
                         fromAnalyzed |-> FALSE, live |-> TRUE ]}
               /\ returned' = FALSE
    /\ UNCHANGED << activeTab, analysisResult, codeContent, fileUpload,
                    codeQuestion, analyzeReqs, reads, questionReqs, relayed,
                    alerts, failed, shownLog, pure >>

\* The file name used when the analysis result has none.
DefaultFilename == <<"c", "o", "d", "e", ".", "p", "y">>

\* Faulty variant of AnalyzedFile: the name is taken without the default.
AnalyzedFile_NoDefault(result, code) ==
    [name |-> result.filename, text |-> code]

\* const filename = analysisResult.filename || 'code.py'
\* new File([new Blob([codeContent])], filename)
AnalyzedFile(result, code) ==
    [ name |-> IF TruthyText(result.filename)
               THEN result.filename
               ELSE DefaultFilename,
      text |-> code ]

\* generateFromAnalyzedCode up to the await; its button is rendered when
\* codeContent && analysisResult and disabled while isGenerating.
GenerateFromAnalyzedCode ==
    /\ activeTab = "documentation"
    /\ ~docGen.isGenerating
    /\ TruthyText(codeContent) /\ analysisResult # Null
    /\ issued < MaxRequests
    /\ issued' = issued + 1
    /\ lastDoc' = [id |-> issued + 1, prior |-> docGen.documentation]
    /\ docGen' = DocSubmitted(docGen, docGen.uploadedFile)
    /\ docReqs' = docReqs \cup
           {[ id |-> issued + 1,
              file |-> AnalyzedFile(analysisResult, codeContent),
              fromAnalyzed |-> TRUE, live |-> TRUE ]}
    /\ returned' = FALSE
    /\ UNCHANGED << activeTab, analysisResult, codeContent, fileUpload,
                    codeQuestion, analyzeReqs, reads, questionReqs, relayed,
                    alerts, failed, shownLog, pure >>

\* generateDocumentation resolved: the rest of the try block, then finally.
DocResolved(req) ==
    /\ req \in docReqs
    /\ docReqs' = docReqs \ {req}
    /\ docGen' =
           IF req.live
           THEN [ docGen EXCEPT
                    !.documentation = DocumentationResponseOf(req),
                    !.uploadedFile = IF req.fromAnalyzed THEN req.file ELSE @,
                    !.isGenerating = FALSE ]
           ELSE docGen
    /\ returned' = FALSE
    /\ UNCHANGED << activeTab, analysisResult, codeContent, fileUpload,
                    codeQuestion, analyzeReqs, reads, questionReqs, issued,
                    relayed, alerts, failed, shownLog, lastDoc, pure >>

\* setError(err.response?.data?.detail || 'Failed to generate documentation. ...')
DocErrorText(err) == OrStr(ErrDetail(err), DocFallback)

\* Faulty variant of DocRejected: the catch block also forgets the file.
DocRejected_DropsFile(req, err) ==
    /\ req \in docReqs
    /\ docReqs' = docReqs \ {req}
    /\ docGen' = IF req.live
                 THEN [ docGen EXCEPT !.error = DocErrorText(err),
                                      !.uploadedFile = Null,
                                      !.isGenerating = FALSE ]
                 ELSE docGen
    /\ failed' = [failed EXCEPT !.documentation = @ + 1]
    /\ returned' = FALSE
    /\ UNCHANGED << activeTab, analysisResult, codeContent, fileUpload,
                    codeQuestion, analyzeReqs, reads, questionReqs, issued,
                    relayed, alerts, shownLog, lastDoc, pure >>

\* generateDocumentation rejected: the catch block, then finally.
DocRejected(req, err) ==
    /\ req \in docReqs
    /\ docReqs' = docReqs \ {req}
    /\ docGen' = IF req.live
                 THEN [ docGen EXCEPT !.error = DocErrorText(err),
                                      !.isGenerating = FALSE ]
                 ELSE docGen
    /\ failed' = [failed EXCEPT !.documentation = @ + 1]
    /\ returned' = FALSE
    /\ UNCHANGED << activeTab, analysisResult, codeContent, fileUpload,
                    codeQuestion, analyzeReqs, reads, questionReqs, issued,
                    relayed, alerts, shownLog, lastDoc, pure >>

\* ------------------------------------------------------------ specification
\* acceptedFiles of a drop on the file intake: none, or one of Files.
DropInputs == {<< >>} \cup {<<f>> : f \in Files}
\* acceptedFiles of a drop on the documentation panel: none, or FileB.
DocDropInputs == {<< >>, <<FileB>>}

Next ==
    \/ \E t \in Tabs : SetActiveTab(t)
    \/ \E fs \in DropInputs : FileUploadOnDrop(fs)
    \/ \E req \in analyzeReqs : AnalyzeResolved(req)
    \/ \E req \in analyzeReqs, err \in Errors : AnalyzeRejected(req, err)
    \/ \E rd \in reads : ReaderOnload(rd)
    \/ \E rd \in reads : ReaderFailed(rd)
    \/ \E text \in QuestionTexts : SetQuestion(text)
    \/ \E lang \in UserLanguages : SetLanguage(lang)
    \/ HandleSubmit
    \/ \E req \in questionReqs : AskResolved(req)
    \/ \E req \in questionReqs, err \in Errors : AskRejected(req, err)
    \/ \E fs \in DocDropInputs : DocOnDrop(fs)
    \/ GenerateFromAnalyzedCode
    \/ \E req \in docReqs : DocResolved(req)
    \/ \E req \in docReqs, err \in Errors : DocRejected(req, err)

Spec == Init /\ [][Next]_vars

\* The application when every request that was issued completes and every
\* file read that was started completes with onload: the browser delivers
\* the settlement of each promise and the load event of each FileReader.
\* The user drops a.py or b.rb, types a question, and a failure has a
\* detail message.
LiveDropInputs == {<< >>, <<FileA>>, <<FileB>>}
LiveQuestionTexts == {<<"q", " ">>}
LiveErrors == {[response |-> TRUE, detail |-> "Unsupported file type"]}

AnalyzeCompletes ==
    \E req \in analyzeReqs :
        AnalyzeResolved(req) \/ \E err \in LiveErrors : AnalyzeRejected(req, err)
AskCompletes ==
    \E req \in questionReqs :
        AskResolved(req) \/ \E err \in LiveErrors : AskRejected(req, err)
DocCompletes ==
    \E req \in docReqs :
        DocResolved(req) \/ \E err \in LiveErrors : DocRejected(req, err)
ReadCompletes == \E rd \in reads : ReaderOnload(rd)

LiveNext ==
    \/ \E t \in Tabs : SetActiveTab(t)
    \/ \E fs \in LiveDropInputs : FileUploadOnDrop(fs)
    \/ AnalyzeCompletes
    \/ ReadCompletes
    \/ \E text \in LiveQuestionTexts : SetQuestion(text)
    \/ \E lang \in UserLanguages : SetLanguage(lang)
    \/ HandleSubmit
    \/ AskCompletes
    \/ \E fs \in DocDropInputs : DocOnDrop(fs)
    \/ GenerateFromAnalyzedCode
    \/ DocCompletes

LiveSpec ==
    /\ Init /\ [][LiveNext]_vars
    /\ WF_vars(AnalyzeCompletes) /\ WF_vars(ReadCompletes)
    /\ WF_vars(AskCompletes) /\ WF_vars(DocCompletes)

\* ------------------------------------------------------------ render-time functions
\* A click on Download with `documentation` as the panel holds it.
DownloadInit ==
    /\ AppInit
    /\ pure \in {[op |-> "downloadDocumentation", input |-> d] : d \in Documentations}

DownloadDocumentation ==
    /\ pure.op = "downloadDocumentation"
    /\ ~Done(pure)
    /\ pure' = [ op |-> pure.op, input |-> pure.input,
                 output |-> DownloadOf(pure.input) ]
    /\ UNCHANGED appVars

DownloadSpec == DownloadInit /\ [][DownloadDocumentation]_vars

\* A render of CodeAnalysis for a complexity score and for a quality score.
ColorInit ==
    /\ AppInit
    /\ pure \in {[op |-> "getComplexityColor", input |-> k] : k \in Scores}
          \cup {[op |-> "getQualityColor", input |-> q] : q \in QualityScores}

ComplexityColor ==
    /\ pure.op = "getComplexityColor"
    /\ ~Done(pure)
    /\ pure' = [ op |-> pure.op, input |-> pure.input,
                 output |-> GetComplexityColor(pure.input) ]
    /\ UNCHANGED appVars

QualityColor ==
    /\ pure.op = "getQualityColor"
    /\ ~Done(pure)
    /\ pure' = [ op |-> pure.op, input |-> pure.input,
                 output |-> GetQualityColor(pure.input) ]
    /\ UNCHANGED appVars

ColorNext == ComplexityColor \/ QualityColor

ColorSpec == ColorInit /\ [][ColorNext]_vars

\* A render of MarkdownRenderer; the next render is given the cleaned
\* content of this one.
MarkdownInit ==
    /\ AppInit
    /\ pure \in {[op |-> "cleanedContent", content |-> t, passes |-> 0] :
                    t \in MarkdownTexts}

CleanMarkdown ==
    /\ pure.op = "cleanedContent"
    /\ pure.passes < MaxPasses
    /\ pure' = [ op |-> pure.op, content |-> pure.content,
                 passes |-> pure.passes + 1,
                 cleaned |-> IF pure.passes = 0
                             THEN CleanedContent(pure.content)
                             ELSE CleanedContent(pure.cleaned),
                 before |-> IF pure.passes = 0 THEN pure.content
                            ELSE pure.cleaned ]
    /\ UNCHANGED appVars

MarkdownSpec == MarkdownInit /\ [][CleanMarkdown]_vars

\* A render of CodeAnalysis's Code Structure card for one basic_analysis.
StructureInit ==
    /\ AppInit
    /\ pure \in {[op |-> "codeStructure", basic |-> b] : b \in BasicAnalyses}

RenderCodeStructure ==
    /\ pure.op = "codeStructure"
    /\ ~Done(pure)
    /\ pure' = [ op |-> pure.op, basic |-> pure.basic,
                 output |-> [ functions |-> FunctionsList(pure.basic),
                              classes |-> ClassesList(pure.basic) ] ]
    /\ UNCHANGED appVars

StructureSpec == StructureInit /\ [][RenderCodeStructure]_vars

\* A render of the code component for one code span.
CodeInit ==
    /\ AppInit
    /\ pure \in {[op |-> "code", props |-> pr] : pr \in CodeProps}

RenderCode ==
    /\ pure.op = "code"
    /\ ~Done(pure)
    /\ pure' = [ op |-> pure.op, props |-> pure.props,
                 output |-> CodeComponent(pure.props) ]
    /\ UNCHANGED appVars

CodeSpec == CodeInit /\ [][RenderCode]_vars

\* ------------------------------------------------------------ claims
AnalyzeIds == {r.id : r \in analyzeReqs}
ReadIds == {r.id : r \in reads}
QuestionIds == {r.id : r \in questionReqs}
DocIds == {r.id : r \in docReqs}

IsPrefix(s, t) == Len(s) <= Len(t) /\ SubSeq(t, 1, Len(s)) = s

\* A text that is empty or holds whitespace only.
IsBlank(s) == \A i \in 1..Len(s) : s[i] \in Whitespace

\* The conversation log the user was last shown.
DisplayedLog == IF activeTab = "question" THEN codeQuestion.answers ELSE shownLog

\* C1: each panel has at most one of its own backend requests outstanding
\* at any time.
C1_OneRequestPerPanel ==
    /\ Cardinality(analyzeReqs) <= 1
    /\ Cardinality(questionReqs) <= 1
    /\ Cardinality(docReqs) <= 1

\* C2: the App's analysisResult and codeContent belong to the same upload:
\* both initial, or the analyze response for a file F and the text of F.
C2_PairFromOneUpload ==
    \/ analysisResult = Null /\ codeContent = EmptyStr
    \/ /\ analysisResult # Null
       /\ \E f \in Files : analysisResult = AnalyzeResponse(f) /\ codeContent = f.text

\* C2 witness: the pair has been replaced by the relay of an upload other
\* than the newest one relayed, and the relay of yet another upload is due.
C2_Witness ==
    /\ analysisResult # Null
    /\ relayed.held # relayed.newest
    /\ \E rd \in reads : rd.file # analysisResult.file

\* C3: once the results of two uploads have been relayed, the App holds the
\* pair of the upload accepted later; an earlier-accepted upload never
\* overwrites a later-accepted one.
C3_LatestUploadWins ==
    relayed.newest > 0 =>
        /\ analysisResult = AnalyzeResponse(relayed.newestFile)
        /\ codeContent = relayed.newestFile.text

\* C4 as claimed: after a failed analyze call the App's pair equals the pair
\* before the file was dropped, and the callback is not invoked for that
\* upload.
C4_PairAsBeforeDrop ==
    [][ \A req \in analyzeReqs :
          (failed'.analyze > failed.analyze /\ req.id \notin AnalyzeIds') =>
              /\ analysisResult' = req.resultAtDrop
              /\ codeContent' = req.contentAtDrop
              /\ req.id \notin ReadIds'
              /\ relayed'.held # req.id ]_vars

\* C4 as amended: a failed analyze call does not change the App's pair (the
\* pair right after the failure is the pair right before it) and starts no
\* file read; the callback is invoked only by a file read, and a file read
\* is started only by an analyze call that succeeded.
C4_FailureKeepsPair ==
    [][ /\ failed'.analyze > failed.analyze =>
             /\ analysisResult' = analysisResult
             /\ codeContent' = codeContent
             /\ relayed' = relayed
             /\ reads' = reads
        /\ (relayed' # relayed \/ analysisResult' # analysisResult
               \/ codeContent' # codeContent) =>
             \E rd \in reads : rd.id \notin ReadIds' /\ relayed'.held = rd.id
        /\ \A id \in ReadIds' \ ReadIds :
             id \in AnalyzeIds \ AnalyzeIds' /\ failed' = failed ]_vars

\* C4 witness: the analyze call for the file the intake shows has failed,
\* no upload is under way, and the App holds the pair of another file.
C4_Witness ==
    /\ failed.analyze > 0
    /\ activeTab = "analyze"
    /\ fileUpload.error # NullStr
    /\ analyzeReqs = {} /\ reads = {}
    /\ analysisResult # Null
    /\ analysisResult.file # fileUpload.uploadedFile

\* The error texts a failure can produce.
AnalyzeErrorTexts ==
    {AnalyzeFallback} \cup {e.detail : e \in {x \in Errors : TruthyStr(x.detail)}}
DocErrorTexts ==
    {DocFallback} \cup {e.detail : e \in {x \in Errors : TruthyStr(x.detail)}}

\* C5: after every failed analyze / documentation request the panel's error
\* text is non-null, the detail message or the fallback; it is null again
\* once the panel's next request is submitted.  (Stated for the panel on
\* display after the step.)
C5_FailureSetsError ==
    [][ /\ (failed'.analyze > failed.analyze /\ activeTab' = "analyze") =>
             fileUpload'.error \in AnalyzeErrorTexts
        /\ (failed'.documentation > failed.documentation
               /\ activeTab' = "documentation") =>
             docGen'.error \in DocErrorTexts
        /\ AnalyzeIds' \ AnalyzeIds # {} => fileUpload'.error = NullStr
        /\ DocIds' \ DocIds # {} => docGen'.error = NullStr ]_vars

\* C6: a submit of the Q&A form with a blank question or blank code content
\* is a no-op: a question request is issued only when neither is blank, and
\* the early return leaves the requests, the log, the question input, the
\* language and the loading flag as they were.
C6_BlankSubmitIsNoOp ==
    [][ /\ QuestionIds' \ QuestionIds # {} =>
             ~IsBlank(codeQuestion.question) /\ ~IsBlank(codeContent)
        /\ (returned' /\ ~returned) =>
             /\ IsBlank(codeQuestion.question) \/ IsBlank(codeContent)
             /\ UNCHANGED << questionReqs, issued, codeQuestion >> ]_vars

\* C6 witness: handleSubmit has just returned early on a typed question
\* because the code content holds whitespace only.
C6_Witness ==
    /\ returned
    /\ ~IsBlank(codeQuestion.question)
    /\ codeContent # EmptyStr /\ IsBlank(codeContent)

\* C7: after a failed question request the log of the Q&A panel is the log
\* at the moment the question was submitted, and the panel is not loading.
\* (Stated for a panel on display with no other question request
\* outstanding; the alert is AskRejected's alerts + 1.)
C7_FailedQuestionKeepsLog ==
    [][ \A req \in questionReqs :
          (alerts' > alerts /\ req.id \notin QuestionIds'
              /\ activeTab = "question" /\ questionReqs' = {}) =>
              /\ codeQuestion'.answers = req.answers
              /\ ~codeQuestion'.isLoading ]_vars

\* C8: the conversation log is append-only over every operation, tab
\* switches included: a step keeps the entries shown and adds at most one.
C8_LogAppendOnly ==
    [][ /\ IsPrefix(DisplayedLog, DisplayedLog')
        /\ Len(DisplayedLog') <= Len(DisplayedLog) + 1 ]_vars

\* C9: every entry of the log answers a question that was submitted with
\* the code content the App holds now.
C9_LogScopedToFile ==
    \A i \in DOMAIN codeQuestion.answers :
        codeQuestion.answers[i].code = codeContent

\* C10: a question request that completes successfully appends exactly its
\* response to the end of the log and clears the question input, so the
\* entries are in the order of their submits.  (Stated for a panel on
\* display.)
C10_SuccessAppendsEntry ==
    [][ /\ \A req \in questionReqs :
             (req.id \notin QuestionIds' /\ alerts' = alerts
                 /\ activeTab = "question") =>
                 /\ codeQuestion'.answers =
                        Append(codeQuestion.answers, QuestionResponseOf(req))
                 /\ codeQuestion'.question = EmptyStr
        /\ \A i, j \in DOMAIN codeQuestion'.answers :
             i < j => codeQuestion'.answers[i].id < codeQuestion'.answers[j].id
      ]_vars

\* C11: the entry appended to the log for an answered question has as its
\* question the text that was in the question box when it was submitted,
\* character for character.
C11_EntryHasTypedQuestion ==
    [][ (activeTab = "question" /\ activeTab' = "question"
            /\ Len(codeQuestion'.answers) > Len(codeQuestion.answers)) =>
          codeQuestion'.answers[Len(codeQuestion'.answers)].question =
              codeQuestion.question ]_vars

\* C11 witness: the log holds an entry whose question ends in a blank.
C11_Witness ==
    /\ activeTab = "question"
    /\ \E i \in DOMAIN codeQuestion.answers :
           codeQuestion.answers[i].question = <<"q", " ">>

\* C12: a question request carries the question text, the App's code
\* content and the selected language of the moment of the submit; when the
\* user has picked no language since the panel was shown, that language is
\* the language of the App's analysis result, or "Generic" if it has none.
C12_RequestContents ==
    [][ \A req \in questionReqs' :
          req.id \notin QuestionIds =>
              /\ req.form.question = codeQuestion.question
              /\ req.form.code_content = codeContent
              /\ req.form.language = codeQuestion.language
              /\ ~codeQuestion.touched =>
                     req.form.language = DetectedLanguage(analysisResult) ]_vars

\* C13: when a new analysis result arrives at the Q&A panel (the panel is
\* shown with it, or it is relayed while the panel is shown) the selected
\* language becomes that result's detected language; otherwise the selected
\* language changes only by the user's selection.
C13_LanguageFollowsResult ==
    [][ /\ (activeTab' = "question"
              /\ (analysisResult' # analysisResult \/ activeTab # "question")) =>
             codeQuestion'.language = DetectedLanguage(analysisResult')
        /\ (activeTab = "question" /\ activeTab' = "question"
              /\ analysisResult' = analysisResult
              /\ codeQuestion'.language # codeQuestion.language) =>
             codeQuestion'.touched /\ codeQuestion'.language \in UserLanguages
      ]_vars

\* C14: a click on "generate documentation for analyzed file" issues a
\* documentation request whose file has the App's code content as content
\* and the analysis result's filename, or code.py when it has none, as
\* name, both of one analyze result; no such request is issued while the
\* code content is empty or there is no analysis result.
C14_GenerateFromAnalyzed ==
    [][ \A req \in docReqs' :
          (req.id \notin DocIds /\ req.fromAnalyzed) =>
              /\ codeContent # EmptyStr /\ analysisResult # Null
              /\ req.file.text = codeContent
              /\ req.file.name = IF analysisResult.filename = EmptyStr
                                 THEN <<"c", "o", "d", "e", ".", "p", "y">>
                                 ELSE analysisResult.filename
              /\ \E f \in Files : /\ analysisResult = AnalyzeResponse(f)
                                  /\ codeContent = f.text ]_vars

\* C14 witness: a request for the analyzed file, named code.py, is in
\* flight, issued while the file read of a later successful analyze call
\* had not yet been relayed.
C14_Witness ==
    /\ reads # {}
    /\ \E req \in docReqs :
           /\ req.fromAnalyzed /\ req.live
           /\ req.file.name = <<"c", "o", "d", "e", ".", "p", "y">>
           /\ \A rd \in reads : rd.id < req.id /\ rd.file.text # req.file.text

\* C15: the documentation the panel shows is the response to the newest
\* documentation request submitted; the response to an earlier request is
\* not shown once a later request has been submitted.
C15_ShowsLatestDocumentation ==
    docGen.documentation # Null => docGen.documentation.id = lastDoc.id

\* C15 witness: the panel shows the response to a request that was
\* submitted while the response to an earlier request was on display.
C15_Witness ==
    /\ docGen.documentation # Null
    /\ lastDoc.prior # Null
    /\ lastDoc.prior.id < docGen.documentation.id

\* C16 as claimed: after the failure of the panel's documentation request
\* the panel's documentation is the documentation that was on display
\* before the request was submitted.
C16_PriorDocumentationKept ==
    [][ \A req \in docReqs :
          (failed'.documentation > failed.documentation
              /\ req.id \notin DocIds' /\ req.live /\ req.id = lastDoc.id) =>
              docGen'.documentation = lastDoc.prior ]_vars

\* C16 as amended: the failure of a documentation request changes neither
\* the panel's documentation nor its file; the documentation on display
\* before the submit was cleared by the submit, so after the failure of
\* the panel's own request the panel shows no documentation.
C16_FailureKeepsDocumentation ==
    [][ failed'.documentation > failed.documentation =>
          /\ docGen'.documentation = docGen.documentation
          /\ docGen'.uploadedFile = docGen.uploadedFile
          /\ \A req \in docReqs :
                (req.id \notin DocIds' /\ req.live) =>
                    docGen'.documentation = Null ]_vars

\* C16 witness: the panel's request has failed; a documentation was on
\* display when it was submitted and none is now.
C16_Witness ==
    /\ failed.documentation > 0
    /\ activeTab = "documentation"
    /\ docGen.error # NullStr
    /\ docGen.uploadedFile # Null
    /\ docGen.documentation = Null
    /\ lastDoc.prior # Null
    /\ docReqs = {}

\* C17: a download is started only while a documentation is held, and for
\* a filename <stem>.<ext>, ext non-empty and free of dots and slashes, its
\* name is <stem>_documentation.md; foo.py gives foo_documentation.md.
C17_DownloadName ==
    (pure.op = "downloadDocumentation" /\ Done(pure)) =>
        /\ pure.output.download => pure.input # Null
        /\ pure.input # Null =>
              LET name == pure.input.filename
              IN /\ pure.output.download
                 /\ \A k \in 1..Len(name) :
                       ( /\ name[k] = "."
                         /\ k < Len(name)
                         /\ \A j \in (k + 1)..Len(name) :
                               name[j] # "." /\ name[j] # "/" ) =>
                           pure.output.name =
                               SubSeq(name, 1, k - 1) \o
                               <<"_", "d", "o", "c", "u", "m", "e", "n", "t",
                                 "a", "t", "i", "o", "n", ".", "m", "d">>
                 /\ name = <<"f", "o", "o", ".", "p", "y">> =>
                       pure.output.name =
                           <<"f", "o", "o", "_", "d", "o", "c", "u", "m", "e",
                             "n", "t", "a", "t", "i", "o", "n", ".", "m", "d">>

\* C17 witness: the download for a.a.a has been started; its stem holds a
\* dot.
C17_Witness ==
    /\ pure.op = "downloadDocumentation" /\ Done(pure)
    /\ pure.input # Null
    /\ pure.input.filename = <<"a", ".", "a", ".", "a">>
    /\ pure.output.download
    /\ Len(pure.output.name) = 20

\* C18 as claimed: a complexity score below 3 is green; the scores 3 and 6
\* are both yellow.
C18_BoundariesYellow ==
    (pure.op = "getComplexityColor" /\ Done(pure)) =>
        /\ pure.input < 3 * ScoreSteps => pure.output = "text-green-600"
        /\ pure.input = 3 * ScoreSteps => pure.output = "text-yellow-600"
        /\ pure.input = 6 * ScoreSteps => pure.output = "text-yellow-600"

\* C18 as amended: a complexity score below 3 is green, a score of at
\* least 3 and below 6 is yellow, a score of 6 or more is red: 3 is yellow
\* (not green) and 6 is red (not yellow).
C18_ComplexityThresholds ==
    (pure.op = "getComplexityColor" /\ Done(pure)) =>
        /\ pure.input < 3 * ScoreSteps <=> pure.output = "text-green-600"
        /\ (3 * ScoreSteps <= pure.input /\ pure.input < 6 * ScoreSteps)
              <=> pure.output = "text-yellow-600"
        /\ pure.input >= 6 * ScoreSteps <=> pure.output = "text-red-600"

\* C18 witness: the color of the score 6 has been computed and is red.
C18_Witness ==
    /\ pure.op = "getComplexityColor" /\ Done(pure)
    /\ pure.input = 6 * ScoreSteps
    /\ pure.output = "text-red-600"

\* C19: a quality score that is present is green from 8 on, yellow from 6
\* to below 8 and red below 6; gray is produced only for no score.
C19_QualityThresholds ==
    (pure.op = "getQualityColor" /\ Done(pure)) =>
        /\ pure.output = "text-gray-600" => pure.input = Null
        /\ pure.input # Null =>
              pure.output =
                  IF pure.input.value >= 8 * ScoreSteps THEN "text-green-600"
                  ELSE IF pure.input.value >= 6 * ScoreSteps THEN "text-yellow-600"
                  ELSE "text-red-600"

\* C20: the Markdown cleanup is idempotent: applied to its own result it
\* returns that result.
C20_CleanupIdempotent ==
    (pure.op = "cleanedContent" /\ pure.passes >= 2) =>
        pure.cleaned = pure.before

\* C21: no request is retried automatically.  Every request is issued by the
\* step of an accepted submit of its own panel (the file intake's drop, the
\* Q&A panel's submit, the documentation panel's drop or generate click),
\* one request per submit, and the step in which a request completes,
\* successfully or not, issues no request: the requests issued so far are
\* numbered 1..issued, a step adds at most the one numbered issued + 1, and
\* the step that adds it removes no request.
C21_NoAutomaticRetry ==
    [][ /\ issued' \in {issued, issued + 1}
        /\ \A req \in analyzeReqs' :
               req.id > issued =>
                   /\ issued' = issued + 1 /\ req.id = issued'
                   /\ DropzoneEnabled /\ fileUpload'.isUploading
                   /\ analyzeReqs \subseteq analyzeReqs'
                   /\ questionReqs' = questionReqs /\ docReqs' = docReqs
        /\ \A req \in questionReqs' :
               req.id > issued =>
                   /\ issued' = issued + 1 /\ req.id = issued'
                   /\ activeTab = "question" /\ ~codeQuestion.isLoading
                   /\ SubmitAccepted(codeQuestion.question, codeContent)
                   /\ codeQuestion'.isLoading
                   /\ questionReqs \subseteq questionReqs'
                   /\ analyzeReqs' = analyzeReqs /\ docReqs' = docReqs
        /\ \A req \in docReqs' :
               req.id > issued =>
                   /\ issued' = issued + 1 /\ req.id = issued'
                   /\ DocDropzoneEnabled /\ docGen'.isGenerating
                   /\ docReqs \subseteq docReqs'
                   /\ analyzeReqs' = analyzeReqs /\ questionReqs' = questionReqs
        /\ issued' = issued + 1 =>
               \E req \in analyzeReqs' \cup questionReqs' \cup docReqs' :
                   req.id = issued' ]_vars

\* An analyze request and a documentation request have failed and nothing
\* is in flight: two requests were issued, none again.
C21_Witness ==
    /\ failed.analyze = 1 /\ failed.documentation = 1
    /\ issued = 2
    /\ analyzeReqs = {} /\ questionReqs = {} /\ docReqs = {} /\ reads = {}

\* C23: the App's (codeContent, analysisResult) pair is read-only for the Q&A
\* and documentation panels.  A step changes the pair only by completing the
\* file read of an upload the file intake accepted, and then to that upload's
\* result and text; a tab switch, a question submit or completion, and a
\* documentation drop, generate click or completion leave the pair as it is.
C23_PairReadOnlyForPanels ==
    [][ /\ (analysisResult' # analysisResult \/ codeContent' # codeContent) =>
              \E rd \in reads \ reads' :
                  /\ analysisResult' = rd.result
                  /\ codeContent' = rd.file.text
        /\ (\/ activeTab' # activeTab
            \/ questionReqs' # questionReqs
            \/ docReqs' # docReqs
            \/ docGen' # docGen) =>
              /\ analysisResult' = analysisResult
              /\ codeContent' = codeContent ]_vars

\* a.py was analyzed, a question about it was answered, and documentation
\* is displayed: the pair is still a.py's.
C23_Witness ==
    /\ activeTab = "documentation"
    /\ docGen.documentation # Null
    /\ shownLog # << >>
    /\ analysisResult = AnalyzeResponse(FileA)
    /\ codeContent = FileA.text

\* C27: the language carried by every question request is one of the
\* selector's options (Generic, Python, JavaScript, TypeScript, Java, C++,
\* Go, Rust), whatever language the analysis result reports.
C27_RequestLanguageInOptions ==
    \A req \in questionReqs : req.form.language \in LanguageOptions

\* C28: within one display of the documentation panel, documentation and
\* error text are never both present, and while a request of the panel is
\* generating both are absent.
C28_DocumentationXorError ==
    /\ ~(docGen.documentation # Null /\ docGen.error # NullStr)
    /\ docGen.isGenerating =>
           docGen.documentation = Null /\ docGen.error = NullStr

\* The panel is generating for a request that was submitted while it
\* displayed documentation, after an earlier request had failed.
C28_Witness ==
    /\ docGen.isGenerating
    /\ failed.documentation > 0
    /\ \E req \in docReqs :
           req.live /\ req.id = lastDoc.id /\ lastDoc.prior # Null

\* C29: once the App holds an analysis result it never returns to holding
\* none, and whenever the code content is non-empty the analysis result is
\* present.
C29_ResultNeverLost ==
    /\ [](codeContent # EmptyStr => analysisResult # Null)
    /\ [][analysisResult # Null => analysisResult' # Null]_vars

\* The App holds a.py's pair after a later analyze request has failed and
\* the user has left the file intake.
C29_Witness ==
    /\ analysisResult = AnalyzeResponse(FileA)
    /\ codeContent # EmptyStr
    /\ failed.analyze > 0
    /\ relayed.held < issued
    /\ activeTab # "analyze"
    /\ analyzeReqs = {} /\ reads = {}

\* A line of s (lines are separated by newlines) that consists of three or
\* more hyphens and nothing else.
HasRuleLine(s) ==
    \E i \in 1..Len(s) :
        /\ i = 1 \/ s[i - 1] = "\n"
        /\ DashRun(s, i) >= 3
        /\ i + DashRun(s, i) = Len(s) + 1 \/ s[i + DashRun(s, i)] = "\n"

EndsWithRule(s) ==
    Len(s) >= 3 /\ \A i \in (Len(s) - 2)..Len(s) : s[i] = "-"

\* C25: for every input the cleaned content has no line consisting only of
\* three or more hyphens, does not end with three or more hyphens, has no
\* run of three or more newlines, and has no leading or trailing whitespace.
C25_CleanedContentShape ==
    (pure.op = "cleanedContent" /\ pure.passes = 1) =>
        /\ ~HasRuleLine(pure.cleaned)
        /\ ~EndsWithRule(pure.cleaned)
        /\ \A i \in 1..Len(pure.cleaned) : NewlineRun(pure.cleaned, i) < 3
        /\ Trim(pure.cleaned) = pure.cleaned

\* C24: the analysis display renders at most the first ten functions and the
\* first ten classes, in their order, and for a function with a doc string
\* it displays at most the first 100 characters of it followed by an
\* ellipsis.
C24_ListsTruncated ==
    (pure.op = "codeStructure" /\ Done(pure)) =>
        LET fs == pure.basic.functions
            cs == pure.basic.classes
            shownF == pure.output.functions
            shownC == pure.output.classes
        IN /\ Len(shownF) = Min({10, Len(fs)})
           /\ Len(shownC) = Min({10, Len(cs)})
           /\ \A i \in 1..Len(shownF) : shownF[i].name = fs[i].name
           /\ \A i \in 1..Len(shownC) : shownC[i].name = cs[i].name
           /\ \A i \in 1..Len(shownF) :
                  ("docstring" \in DOMAIN fs[i] /\ fs[i].docstring # EmptyStr) =>
                      LET d == fs[i].docstring
                          k == Min({100, Len(d)})
                      IN /\ "docstring" \in DOMAIN shownF[i]
                         /\ shownF[i].docstring = SubSeq(d, 1, k) \o <<".", ".", ".">>

\* Twelve functions with doc strings of 101 characters and eleven classes
\* were rendered as ten and ten, the doc strings as 100 characters and the
\* ellipsis.
C24_Witness ==
    /\ pure.op = "codeStructure" /\ Done(pure)
    /\ Len(pure.basic.functions) = 12
    /\ Len(pure.basic.classes) = 11
    /\ Len(pure.basic.functions[1].docstring) = 101
    /\ Len(pure.output.functions) = 10
    /\ Len(pure.output.classes) = 10
    /\ Len(pure.output.functions[1].docstring) = 103

\* The tag a fence declares: what follows "language-" in the class name.
DeclaredTag(props) ==
    IF "className" \in DOMAIN props /\ StartsWith(props.className, 1, LanguagePrefix)
    THEN SubSeq(props.className, Len(LanguagePrefix) + 1, Len(props.className))
    ELSE EmptyStr

\* C26: for a block-level code span the highlighting language is the
\* declared tag when there is one; with none declared it is Python if a
\* Python token occurs, else JavaScript if a JavaScript-family token occurs,
\* else Java only when `public` or `private` occurs together with a class
\* block (the class keyword and an opening brace), else plain text.
C26_LanguageGuess ==
    (pure.op = "code" /\ Done(pure) /\ pure.output.block) =>
        LET tag == DeclaredTag(pure.props)
            content == ToLowerCase(CodeString(pure.props.children))
            language == pure.output.language
        IN IF tag # EmptyStr THEN language = tag
           ELSE IF \E t \in PythonTokens : Includes(content, t)
                THEN language = PythonLanguage
           ELSE IF \E t \in JavaScriptTokens : Includes(content, t)
                THEN language = JavaScriptLanguage
           ELSE /\ language \in {JavaLanguage, TextLanguage}
                /\ language = JavaLanguage =>
                       /\ Includes(content, PublicToken)
                             \/ Includes(content, PrivateToken)
                       /\ Includes(content, ClassToken)
                       /\ Includes(content, BraceToken)

\* C22: each panel goes idle -> loading -> idle.  A panel enters loading
\* only in the step of an accepted submit; while it is loading, a request of
\* its own is in flight; the completion of that request, successful or
\* failed, clears the loading flag; so, every issued request completing
\* eventually, a loading panel eventually is not loading and accepts a
\* submit again.
C22_LoadingEnds ==
    /\ [](/\ fileUpload.isUploading <=> \E req \in analyzeReqs : req.live
          /\ codeQuestion.isLoading <=> \E req \in questionReqs : req.live
          /\ docGen.isGenerating <=> \E req \in docReqs : req.live)
    /\ [][ /\ (fileUpload'.isUploading /\ ~fileUpload.isUploading) =>
                 DropzoneEnabled /\ AnalyzeIds' \ AnalyzeIds # {}
           /\ (codeQuestion'.isLoading /\ ~codeQuestion.isLoading) =>
                 /\ activeTab = "question"
                 /\ SubmitAccepted(codeQuestion.question, codeContent)
                 /\ QuestionIds' \ QuestionIds # {}
           /\ (docGen'.isGenerating /\ ~docGen.isGenerating) =>
                 DocDropzoneEnabled /\ DocIds' \ DocIds # {}
           /\ \A req \in analyzeReqs :
                 (req.live /\ req.id \notin AnalyzeIds') =>
                     ~fileUpload'.isUploading /\ DropzoneEnabled'
           /\ \A req \in questionReqs :
                 (req.live /\ req.id \notin QuestionIds') =>
                     ~codeQuestion'.isLoading
           /\ \A req \in docReqs :
                 (req.live /\ req.id \notin DocIds') =>
                     ~docGen'.isGenerating /\ DocDropzoneEnabled' ]_vars
    /\ (fileUpload.isUploading \/ codeQuestion.isLoading \/ docGen.isGenerating)
          ~> ~(fileUpload.isUploading \/ codeQuestion.isLoading
                   \/ docGen.isGenerating)

\* Each panel has been loading and is idle again: an upload was analyzed,
\* a question about it was answered, and the documentation panel shows the
\* documentation of a completed request.
C22_Witness ==
    /\ issued = 3
    /\ shownLog # << >>
    /\ activeTab = "documentation"
    /\ docGen.documentation # Null /\ ~docGen.isGenerating
    /\ docReqs = {}

\* C30: every accepted upload whose analyze call succeeds and whose file
\* read completes eventually replaces the App's pair, even when the user
\* has switched tabs before: a pending read is eventually no longer
\* pending, and the step that completes it sets the pair to that upload's
\* result and text whatever tab is shown.  The file
\* intake's loading flag is cleared in the step in which the analyze call
\* returns, in which the pair is not yet replaced.
C30_UploadEventuallyRelayed ==
    /\ (reads # {}) ~> (reads = {})
    /\ [][ /\ \A rd \in reads :
                 rd.id \notin ReadIds' =>
                     /\ analysisResult' = rd.result
                     /\ codeContent' = rd.file.text
                     /\ relayed'.held = rd.id
           /\ \A req \in analyzeReqs :
                 (req.id \notin AnalyzeIds' /\ req.id \in ReadIds') =>
                     /\ req.live => ~fileUpload'.isUploading
                     /\ analysisResult' = analysisResult
                     /\ codeContent' = codeContent ]_vars

\* a.py's pair was relayed; b.rb's analyze call has returned and its read
\* is pending while the user is on another tab.
C30_Witness ==
    /\ activeTab # "analyze"
    /\ relayed.held = 1
    /\ analysisResult = AnalyzeResponse(FileA)
    /\ \E rd \in reads : rd.id = 2 /\ rd.file = FileB

====
